---- MODULE Spec2Model ----
(***************************************************************************)
(* Lowering of GPU subgroup MMA operations to SPIR-V NV cooperative matrix *)
(* operations (mlir/lib/Conversion/GPUToSPIRV/WmmaOpsToSPIRV.cpp).         *)
(*                                                                         *)
(* Two specifications are given.  RuleSpec applies each conversion pattern *)
(* to one root operation whose operands (original and converted) are drawn *)
(* from bounded sets.  Spec runs the six registered patterns over a whole  *)
(* block of operations in program order, twice.                            *)
(***************************************************************************)
EXTENDS Integers, Sequences, FiniteSets, TLC

VARIABLES
  \* ---- RuleSpec: one pattern application
  rop,       \* the root operation handed to matchAndRewrite
  rorig,     \* its original operands (op.getOperands()), as value descriptors
  radaptor,  \* its converted operands (adaptor.getOperands())
  rconv,     \* whether spirv::getElementPtr can address the memref
  rres,      \* pattern name -> outcome of matchAndRewrite (or untried)
  \* ---- Spec: the conversion of a block
  graph,     \* the block before the current run, in program order
  bufOk,     \* whether spirv::getElementPtr can address the block's memref
  out,       \* the block after conversion, built up to the cursor
  mapping,   \* replaced value -> replacement value
  erased,    \* ids of the operations of graph that were replaced or erased
  cursor,    \* position in graph of the operation being legalized
  tried,     \* patterns that already declined on the operation at the cursor
  log,       \* every pattern application of the current run, in order
  run,       \* 1: first conversion, 2: conversion of the first one's output
  nextId,    \* next fresh value id
  pc         \* "legalize", "done" or "aborted"

rvars == <<rop, rorig, radaptor, rconv, rres>>
dvars == <<graph, bufOk, out, mapping, erased, cursor, tried, log, run, nextId, pc>>
vars == <<rop, rorig, radaptor, rconv, rres,
          graph, bufOk, out, mapping, erased, cursor, tried, log, run, nextId, pc>>

(***************************************************************************)
(* Bounds of the model.                                                    *)
(***************************************************************************)
\* Longest block Spec converts.
MaxOps == 3
\* Most operands of an elementwise operation in RuleSpec.
MaxOperands == 2
\* Most constituents of a CompositeConstruct in RuleSpec.
MaxConstituents == 2

\* The null Value.
NullValue == 0

(***************************************************************************)
(* Types.                                                                  *)
(***************************************************************************)
MMAMatrixType(e, r, c) ==
  [tag |-> "mma", elem |-> e, rows |-> r, cols |-> c, scope |-> "-"]

CooperativeMatrixNVType(e, s, r, c) ==
  [tag |-> "coop", elem |-> e, rows |-> r, cols |-> c, scope |-> s]

ScalarType(t) ==
  [tag |-> t, elem |-> "-", rows |-> 0, cols |-> 0, scope |-> "-"]

convertMMAToSPIRVCoopMatrixNVType(type) ==
  CooperativeMatrixNVType(type.elem, "Subgroup", type.rows, type.cols)

isCoop(type) == type.tag = "coop"

(***************************************************************************)
(* 64-bit and 32-bit integers, as little-endian sequences of 16-bit limbs. *)
(***************************************************************************)
\* IntegerAttr::get(i32Type, int64_t): the low 32 bits of the value.
Trunc32(s) == <<s[1], s[2]>>

\* The 64-bit value of a 32-bit constant read as a signed integer.
SExt64(w) ==
  LET f == IF w[2] >= 32768 THEN 65535 ELSE 0 IN <<w[1], w[2], f, f>>

\* The 64-bit value of a 32-bit constant read as an unsigned integer.
ZExt64(w) == <<w[1], w[2], 0, 0>>

\* rewriter.getBoolAttr
BoolAttr(b) == IF b THEN <<1>> ELSE <<0>>

(***************************************************************************)
(* Operations and values.                                                  *)
(***************************************************************************)
\* An operation; its id names its result value.
Op(id, kind, sub, operands, type, stride, transpose, attr) ==
  [id |-> id, kind |-> kind, sub |-> sub, operands |-> operands, type |-> type,
   stride |-> stride, transpose |-> transpose, attr |-> attr]

\* An operation of the target dialect.
TargetOp(id, kind, operands, type, attr) ==
  Op(id, kind, "-", operands, type, <<>>, FALSE, attr)

\* A value as a pattern sees it: its type, the kind of its defining operation
\* ("none" for a block argument) and that operation's operands.
ValueDescr(id, type, def, args) ==
  [id |-> id, type |-> type, def |-> def, args |-> args]

\* lhs.getDefiningOp<gpu::SubgroupMmaConstantMatrixOp>()
FromConstantMatrix(v) == v.def = "gpu.subgroup_mma_constant_matrix"

GenericKinds ==
  {"gpu.subgroup_mma_load_matrix", "gpu.subgroup_mma_store_matrix",
   "gpu.subgroup_mma_compute", "gpu.subgroup_mma_constant_matrix",
   "gpu.subgroup_mma_elementwise"}

\* gpu::MMAElementwiseOp
MMAElementwiseOps ==
  {"ADDF", "MULF", "SUBF", "MAXF", "MINF", "DIVF", "ADDI", "MULI", "SUBI",
   "DIVS", "DIVU", "NEGATEF", "NEGATES", "EXTF"}

(***************************************************************************)
(* Outcome of one matchAndRewrite: the LogicalResult (or an abort of the   *)
(* process), the operations created in order, whether the root operation   *)
(* was replaced or erased, and the value that replaces its result.         *)
(***************************************************************************)
Outcome(status, created, erasedRoot, repl) ==
  [status |-> status, created |-> created, erased |-> erasedRoot, repl |-> repl]

Failure == Outcome("failure", <<>>, FALSE, NullValue)

Untried == Outcome("untried", <<>>, FALSE, NullValue)

Aborted == Outcome("abort", <<>>, FALSE, NullValue)

\* rewriter.replaceOpWithNewOp<T>(op, ...): create newOp and replace op by it.
replaceOpWithNewOp(before, newOp, hasResult) ==
  Outcome("success", Append(before, newOp), TRUE,
          IF hasResult THEN newOp.id ELSE NullValue)

(***************************************************************************)
(* spirv::getElementPtr: the address of the indexed element, built as an   *)
(* access chain, or the null Value when the memref cannot be addressed.    *)
(***************************************************************************)
getElementPtr(conv, basePtr, indices, base) ==
  IF conv
  THEN [ptr |-> base,
        created |-> <<TargetOp(base, "spirv.AccessChain",
                               <<basePtr.id>> \o [i \in DOMAIN indices |-> indices[i].id],
                               ScalarType("ptr"), <<>>)>>]
  ELSE [ptr |-> NullValue, created |-> <<>>]

\* The target operation of each supported elementwise kind, where SUBF is
\* given the operation of ADDF.
SPIRVElementwiseOp_SubAsAdd(opType) ==
  CASE opType = "ADDF" -> "spirv.FAdd"
    [] opType = "ADDI" -> "spirv.IAdd"
    [] opType = "SUBF" -> "spirv.FAdd"
    [] opType = "SUBI" -> "spirv.ISub"
    [] opType = "DIVF" -> "spirv.FDiv"
    [] opType = "DIVS" -> "spirv.SDiv"
    [] opType = "DIVU" -> "spirv.UDiv"
    [] opType = "NEGATEF" -> "spirv.FNegate"
    [] opType = "NEGATES" -> "spirv.SNegate"
    [] opType = "EXTF" -> "spirv.FConvert"
    [] OTHER -> "none"

\* The switch of createElementwiseOp: the target operation of each supported
\* elementwise kind, "none" for the default case.
SPIRVElementwiseOp(opType) ==
  CASE opType = "ADDF" -> "spirv.FAdd"
    [] opType = "ADDI" -> "spirv.IAdd"
    [] opType = "SUBF" -> "spirv.FSub"
    [] opType = "SUBI" -> "spirv.ISub"
    [] opType = "DIVF" -> "spirv.FDiv"
    [] opType = "DIVS" -> "spirv.SDiv"
    [] opType = "DIVU" -> "spirv.UDiv"
    [] opType = "NEGATEF" -> "spirv.FNegate"
    [] opType = "NEGATES" -> "spirv.SNegate"
    [] opType = "EXTF" -> "spirv.FConvert"
    [] OTHER -> "none"

\* createElementwiseOp with a case for MULF added.
createElementwiseOp_WithMulF(op, coopType, operands, base) ==
  LET kind == IF op.sub = "MULF" THEN "spirv.FMul" ELSE SPIRVElementwiseOp(op.sub)
  IN IF kind = "none"
     THEN Failure
     ELSE replaceOpWithNewOp(<<>>,
            TargetOp(base, kind, [i \in DOMAIN operands |-> operands[i].id],
                     coopType, <<>>), TRUE)

\* createElementwiseOp: replaces op and returns true for a supported kind,
\* returns false and does nothing otherwise.
createElementwiseOp(op, coopType, operands, base) ==
  LET kind == SPIRVElementwiseOp(op.sub)
  IN IF kind = "none"
     THEN Failure
     ELSE replaceOpWithNewOp(<<>>,
            TargetOp(base, kind, [i \in DOMAIN operands |-> operands[i].id],
                     coopType, <<>>), TRUE)

(***************************************************************************)
(* The conversion patterns.  Each gives the set of outcomes matchAndRewrite*)
(* can have on the root operation op, whose original operands are orig and *)
(* converted operands adaptor; base is the first fresh value id.           *)
(***************************************************************************)
\* Operands of the load: srcMemref, indices...
WmmaLoadOpToSPIRVLowering(op, orig, adaptor, conv, base) ==
  LET bufferPtr == getElementPtr(conv, adaptor[1], SubSeq(adaptor, 2, Len(adaptor)), base)
      n == base + Len(bufferPtr.created)
      coopType == convertMMAToSPIRVCoopMatrixNVType(op.type)
      strideValue == TargetOp(n, "spirv.Constant", <<>>, ScalarType("i32"),
                              Trunc32(op.stride))
      columnMajor == TargetOp(n + 1, "spirv.Constant", <<>>, ScalarType("i1"),
                              BoolAttr(op.transpose))
      load == TargetOp(n + 2, "spirv.NV.CooperativeMatrixLoad",
                       <<bufferPtr.ptr, strideValue.id, columnMajor.id>>, coopType, <<>>)
      done == replaceOpWithNewOp(bufferPtr.created \o <<strideValue, columnMajor>>,
                                 load, TRUE)
  IN IF bufferPtr.ptr = NullValue
     \* The load is built on the null Value: undefined behaviour.
     THEN {done, Outcome("abort", <<strideValue, columnMajor>>, FALSE, NullValue)}
     ELSE {done}

\* Operands of the store: src, dstMemref, indices...
WmmaStoreOpToSPIRVLowering(op, orig, adaptor, conv, base) ==
  LET bufferPtr == getElementPtr(conv, adaptor[2], SubSeq(adaptor, 3, Len(adaptor)), base)
      n == base + Len(bufferPtr.created)
      strideValue == TargetOp(n, "spirv.Constant", <<>>, ScalarType("i32"),
                              Trunc32(op.stride))
      columnMajor == TargetOp(n + 1, "spirv.Constant", <<>>, ScalarType("i1"),
                              BoolAttr(op.transpose))
      store == TargetOp(n + 2, "spirv.NV.CooperativeMatrixStore",
                        <<bufferPtr.ptr, adaptor[1].id, strideValue.id, columnMajor.id>>,
                        ScalarType("none"), <<>>)
      done == replaceOpWithNewOp(bufferPtr.created \o <<strideValue, columnMajor>>,
                                 store, FALSE)
  IN IF bufferPtr.ptr = NullValue
     \* The store is built on the null Value: undefined behaviour.
     THEN {done, Outcome("abort", <<strideValue, columnMajor>>, FALSE, NullValue)}
     ELSE {done}

\* The multiply-accumulate pattern with the result type taken from opA.
WmmaMmaOp_TypeOfA(op, orig, adaptor, conv, base) ==
  {replaceOpWithNewOp(<<>>,
     TargetOp(base, "spirv.NV.CooperativeMatrixMulAdd",
              <<adaptor[1].id, adaptor[2].id, adaptor[3].id>>, adaptor[1].type, <<>>),
     TRUE)}

\* The multiply-accumulate pattern erasing the root without a replacement.
WmmaMmaOp_EraseOnly(op, orig, adaptor, conv, base) ==
  {Outcome("success", <<>>, TRUE, NullValue)}

\* Operands of the compute: opA, opB, opC.
WmmaMmaOpToSPIRVLowering(op, orig, adaptor, conv, base) ==
  {replaceOpWithNewOp(<<>>,
     TargetOp(base, "spirv.NV.CooperativeMatrixMulAdd",
              <<adaptor[1].id, adaptor[2].id, adaptor[3].id>>, adaptor[3].type, <<>>),
     TRUE)}

WmmaConstantOpToSPIRVLowering(op, orig, adaptor, conv, base) ==
  LET cst == adaptor[1]
      coopType == convertMMAToSPIRVCoopMatrixNVType(op.type)
  IN {replaceOpWithNewOp(<<>>,
        TargetOp(base, "spirv.CompositeConstruct", <<cst.id>>, coopType, <<>>), TRUE)}

WmmaElementwiseOpToSPIRVDefaultLowering(op, orig, adaptor, conv, base) ==
  IF \E i \in DOMAIN adaptor : ~isCoop(adaptor[i].type)
  THEN {Failure}
  ELSE {createElementwiseOp(op, convertMMAToSPIRVCoopMatrixNVType(op.type),
                            adaptor, base)}

\* What follows the choice of splat and matrix in the scalar-multiply pattern.
ScalarMulRewrite(op, splat, matrix, base) ==
  LET coopType == convertMMAToSPIRVCoopMatrixNVType(op.type)
      mts(scalar) == replaceOpWithNewOp(<<>>,
                       TargetOp(base, "spirv.MatrixTimesScalar",
                                <<matrix.id, scalar>>, coopType, <<>>), TRUE)
  IN IF splat.def # "spirv.CompositeConstruct"
     THEN {Failure}
     ELSE IF Len(splat.args) = 1
     THEN {mts(splat.args[1])}
     \* assert(cc.getConstituents().size() == 1): the process aborts where
     \* assertions are compiled in; elsewhere the first constituent is used,
     \* and reading it from an empty list is undefined behaviour.
     ELSE {Aborted, mts(IF Len(splat.args) > 0 THEN splat.args[1] ELSE NullValue)}

\* The scalar-multiply pattern taking the first converted operand as the
\* splat in both branches.
WmmaScalarMul_SplatAlwaysFront(op, orig, adaptor, conv, base) ==
  IF Len(adaptor) # 2 THEN {Failure}
  ELSE IF \E i \in DOMAIN adaptor : ~isCoop(adaptor[i].type) THEN {Failure}
  ELSE IF op.sub # "MULF" THEN {Failure}
  ELSE IF orig[1].def = "gpu.subgroup_mma_constant_matrix"
  THEN ScalarMulRewrite(op, adaptor[1], adaptor[2], base)
  ELSE IF orig[Len(orig)].def = "gpu.subgroup_mma_constant_matrix"
  THEN ScalarMulRewrite(op, adaptor[1], adaptor[2], base)
  ELSE {Failure}

\* The scalar-multiply pattern without the check that the splat is defined
\* by a CompositeConstruct.
WmmaScalarMul_NoProducerCheck(op, orig, adaptor, conv, base) ==
  LET rewrite(splat, matrix) ==
        {replaceOpWithNewOp(<<>>,
           TargetOp(base, "spirv.MatrixTimesScalar",
                    <<matrix.id, IF Len(splat.args) > 0 THEN splat.args[1] ELSE NullValue>>,
                    convertMMAToSPIRVCoopMatrixNVType(op.type), <<>>), TRUE)}
  IN IF Len(adaptor) # 2 THEN {Failure}
     ELSE IF \E i \in DOMAIN adaptor : ~isCoop(adaptor[i].type) THEN {Failure}
     ELSE IF op.sub # "MULF" THEN {Failure}
     ELSE IF orig[1].def = "gpu.subgroup_mma_constant_matrix"
     THEN rewrite(adaptor[1], adaptor[2])
     ELSE IF orig[Len(orig)].def = "gpu.subgroup_mma_constant_matrix"
     THEN rewrite(adaptor[2], adaptor[1])
     ELSE {Failure}

WmmaElementwiseOpToSPIRVScalarMulLowering(op, orig, adaptor, conv, base) ==
  IF Len(adaptor) # 2 THEN {Failure}
  ELSE IF \E i \in DOMAIN adaptor : ~isCoop(adaptor[i].type) THEN {Failure}
  ELSE IF op.sub # "MULF" THEN {Failure}
  ELSE IF orig[1].def = "gpu.subgroup_mma_constant_matrix"
  THEN ScalarMulRewrite(op, adaptor[1], adaptor[2], base)
  ELSE IF orig[Len(orig)].def = "gpu.subgroup_mma_constant_matrix"
  THEN ScalarMulRewrite(op, adaptor[Len(adaptor)], adaptor[1], base)
  ELSE {Failure}

(***************************************************************************)
(* populateGpuWMMAToSPIRVCoopMatrixNVConversionPatterns.                   *)
(***************************************************************************)
Patterns == {"Load", "Mma", "Store", "Constant", "Default", "ScalarMul"}

\* The benefits with those of the two elementwise patterns exchanged.
Benefit_Exchanged(p) == IF p = "Default" THEN 2 ELSE 1

\* The benefit each pattern is registered with.
Benefit(p) == IF p = "ScalarMul" THEN 2 ELSE 1

\* The root of each pattern, with the multiply-accumulate pattern also
\* matching the operation it produces.
Matches_MmaOnTarget(p, kind) ==
  CASE p = "Load" -> kind = "gpu.subgroup_mma_load_matrix"
    [] p = "Store" -> kind = "gpu.subgroup_mma_store_matrix"
    [] p = "Mma" -> kind \in {"gpu.subgroup_mma_compute",
                              "spirv.NV.CooperativeMatrixMulAdd"}
    [] p = "Constant" -> kind = "gpu.subgroup_mma_constant_matrix"
    [] p = "Default" -> kind = "gpu.subgroup_mma_elementwise"
    [] p = "ScalarMul" -> kind = "gpu.subgroup_mma_elementwise"

\* The operation kind each pattern is rooted at (OpConversionPattern<...>).
Matches(p, kind) ==
  CASE p = "Load" -> kind = "gpu.subgroup_mma_load_matrix"
    [] p = "Store" -> kind = "gpu.subgroup_mma_store_matrix"
    [] p = "Mma" -> kind = "gpu.subgroup_mma_compute"
    [] p = "Constant" -> kind = "gpu.subgroup_mma_constant_matrix"
    [] p = "Default" -> kind = "gpu.subgroup_mma_elementwise"
    [] p = "ScalarMul" -> kind = "gpu.subgroup_mma_elementwise"

matchAndRewrite(p, op, orig, adaptor, conv, base) ==
  CASE p = "Load" -> WmmaLoadOpToSPIRVLowering(op, orig, adaptor, conv, base)
    [] p = "Store" -> WmmaStoreOpToSPIRVLowering(op, orig, adaptor, conv, base)
    [] p = "Mma" -> WmmaMmaOpToSPIRVLowering(op, orig, adaptor, conv, base)
    [] p = "Constant" -> WmmaConstantOpToSPIRVLowering(op, orig, adaptor, conv, base)
    [] p = "Default" -> WmmaElementwiseOpToSPIRVDefaultLowering(op, orig, adaptor, conv, base)
    [] p = "ScalarMul" -> WmmaElementwiseOpToSPIRVScalarMulLowering(op, orig, adaptor, conv, base)

(***************************************************************************)
(* RuleSpec: each pattern applied to one root operation.                   *)
(***************************************************************************)
MMATypes ==
  {MMAMatrixType("f16", 16, 16), MMAMatrixType("f32", 16, 16),
   MMAMatrixType("f32", 8, 32)}

CoopTypes == {convertMMAToSPIRVCoopMatrixNVType(t) : t \in MMATypes}

\* Leading dimensions: 1, 16, 2^31 - 1, 2^31, 2^32 + 1, 2^48 and -1.
Strides ==
  {<<1, 0, 0, 0>>, <<16, 0, 0, 0>>, <<65535, 32767, 0, 0>>, <<0, 32768, 0, 0>>,
   <<1, 0, 1, 0>>, <<0, 0, 0, 1>>, <<65535, 65535, 65535, 65535>>}

F16Matrix == MMAMatrixType("f16", 16, 16)

\* The i-th original operand of an elementwise operation: the result of a
\* constant-matrix operation or of a load.
OrigOperands(i) ==
  {ValueDescr(i, F16Matrix, "gpu.subgroup_mma_constant_matrix", <<50 + i>>),
   ValueDescr(i, F16Matrix, "gpu.subgroup_mma_load_matrix", <<60 + i, 70 + i>>)}

\* What the i-th operand can be converted to: a CompositeConstruct of any
\* number of constituents, a cooperative matrix load, or the original value
\* itself when it was not converted.
ConvertedOperands(i, o) ==
  {ValueDescr(10 + i, convertMMAToSPIRVCoopMatrixNVType(o.type),
              "spirv.CompositeConstruct", [j \in 1..n |-> 20 + 10 * i + j])
     : n \in 0..MaxConstituents}
  \cup {ValueDescr(10 + i, convertMMAToSPIRVCoopMatrixNVType(o.type),
                   "spirv.NV.CooperativeMatrixLoad", <<80 + i, 90 + i, 95 + i>>),
        o}

\* Sequences of n (original, converted) operand pairs.
RECURSIVE OperandPairs(_)
OperandPairs(n) ==
  IF n = 0 THEN {<<>>}
  ELSE {Append(s, <<o, c>>) : s \in OperandPairs(n - 1),
        <<o, c>> \in {<<o, c>> \in OrigOperands(n) \X UNION {ConvertedOperands(n, x) : x \in OrigOperands(n)} :
                        c \in ConvertedOperands(n, o)}}

MemRefArg == ValueDescr(1, ScalarType("memref"), "none", <<>>)
IndexArg(i) == ValueDescr(i, ScalarType("index"), "none", <<>>)
ConvertedMemRef == ValueDescr(11, ScalarType("ptr"), "none", <<>>)
ConvertedIndex(i) == ValueDescr(10 + i, ScalarType("i32"), "none", <<>>)
LoadedMatrix(i, t) == ValueDescr(i, t, "spirv.NV.CooperativeMatrixLoad", <<80 + i, 90 + i, 95 + i>>)

RuleInput(op, orig, adaptor, conv) ==
  [op |-> op, orig |-> orig, adaptor |-> adaptor, conv |-> conv]

LoadInputs ==
  {RuleInput(Op(9, "gpu.subgroup_mma_load_matrix", "-", <<1, 2, 3>>, t, s, tr, <<>>),
             <<MemRefArg, IndexArg(2), IndexArg(3)>>,
             <<ConvertedMemRef, ConvertedIndex(2), ConvertedIndex(3)>>, conv)
     : t \in MMATypes, s \in Strides, tr \in BOOLEAN, conv \in BOOLEAN}

StoreInputs ==
  {RuleInput(Op(9, "gpu.subgroup_mma_store_matrix", "-", <<4, 1, 2, 3>>,
                ScalarType("none"), s, tr, <<>>),
             <<ValueDescr(4, F16Matrix, "gpu.subgroup_mma_load_matrix", <<1, 2, 3>>),
               MemRefArg, IndexArg(2), IndexArg(3)>>,
             <<LoadedMatrix(14, convertMMAToSPIRVCoopMatrixNVType(F16Matrix)),
               ConvertedMemRef, ConvertedIndex(2), ConvertedIndex(3)>>, conv)
     : s \in Strides, tr \in BOOLEAN, conv \in BOOLEAN}

MmaInputs ==
  {RuleInput(Op(9, "gpu.subgroup_mma_compute", "-", <<1, 2, 3>>, t, <<>>, FALSE, <<>>),
             <<ValueDescr(1, F16Matrix, "gpu.subgroup_mma_load_matrix", <<>>),
               ValueDescr(2, F16Matrix, "gpu.subgroup_mma_load_matrix", <<>>),
               ValueDescr(3, t, "gpu.subgroup_mma_load_matrix", <<>>)>>,
             <<LoadedMatrix(11, a), LoadedMatrix(12, b), LoadedMatrix(13, c)>>, TRUE)
     : t \in MMATypes, a \in CoopTypes, b \in CoopTypes, c \in CoopTypes}

ConstantInputs ==
  {RuleInput(Op(9, "gpu.subgroup_mma_constant_matrix", "-", <<k>>, t, <<>>, FALSE, <<>>),
             <<ValueDescr(k, ScalarType(t.elem), "none", <<>>)>>,
             <<ValueDescr(10 + k, ScalarType(t.elem), "none", <<>>)>>, TRUE)
     : t \in MMATypes, k \in 1..2}

ElementwiseInputs ==
  {RuleInput(Op(9, "gpu.subgroup_mma_elementwise", sub,
                [i \in DOMAIN ps |-> ps[i][1].id], t, <<>>, FALSE, <<>>),
             [i \in DOMAIN ps |-> ps[i][1]], [i \in DOMAIN ps |-> ps[i][2]], TRUE)
     : sub \in MMAElementwiseOps,
       t \in {F16Matrix, MMAMatrixType("f32", 16, 16)},
       ps \in UNION {OperandPairs(n) : n \in 1..MaxOperands}}

RuleInputs ==
  LoadInputs \cup StoreInputs \cup MmaInputs \cup ConstantInputs \cup ElementwiseInputs

NoOp == Op(0, "none", "-", <<>>, ScalarType("none"), <<>>, FALSE, <<>>)

\* The conversion of a block does not take part in RuleSpec.
DriverIdle ==
  /\ graph = <<>> /\ bufOk = TRUE /\ out = <<>> /\ mapping = {}
  /\ erased = {} /\ cursor = 0 /\ tried = {} /\ log = <<>> /\ run = 0
  /\ nextId = 0 /\ pc = "idle"

RInit ==
  /\ \E in \in RuleInputs :
       /\ rop = in.op
       /\ rorig = in.orig
       /\ radaptor = in.adaptor
       /\ rconv = in.conv
  /\ rres = [p \in Patterns |-> Untried]
  /\ DriverIdle

\* Pattern p has not been applied yet and is rooted at the root operation.
RCanTry(p) == Matches(p, rop.kind) /\ rres[p] = Untried

\* Record outcome o of pattern p.
RRecord(p, o) ==
  /\ rres' = [rres EXCEPT ![p] = o]
  /\ UNCHANGED <<rop, rorig, radaptor, rconv>>
  /\ UNCHANGED dvars

TryLoad ==
  /\ RCanTry("Load")
  /\ \E o \in WmmaLoadOpToSPIRVLowering(rop, rorig, radaptor, rconv, 100) :
       RRecord("Load", o)

TryStore ==
  /\ RCanTry("Store")
  /\ \E o \in WmmaStoreOpToSPIRVLowering(rop, rorig, radaptor, rconv, 100) :
       RRecord("Store", o)

TryMma ==
  /\ RCanTry("Mma")
  /\ \E o \in WmmaMmaOpToSPIRVLowering(rop, rorig, radaptor, rconv, 100) :
       RRecord("Mma", o)

TryConstant ==
  /\ RCanTry("Constant")
  /\ \E o \in WmmaConstantOpToSPIRVLowering(rop, rorig, radaptor, rconv, 100) :
       RRecord("Constant", o)

TryDefault ==
  /\ RCanTry("Default")
  /\ \E o \in WmmaElementwiseOpToSPIRVDefaultLowering(rop, rorig, radaptor, rconv, 100) :
       RRecord("Default", o)

TryScalarMul ==
  /\ RCanTry("ScalarMul")
  /\ \E o \in WmmaElementwiseOpToSPIRVScalarMulLowering(rop, rorig, radaptor, rconv, 100) :
       RRecord("ScalarMul", o)

RNext ==
  \/ TryLoad
  \/ TryStore
  \/ TryMma
  \/ TryConstant
  \/ TryDefault
  \/ TryScalarMul

RuleSpec == RInit /\ [][RNext]_vars

(***************************************************************************)
(* Spec: the conversion of a block.  The operations are legalized in       *)
(* program order; on each, the patterns rooted at its kind are tried in    *)
(* order of decreasing benefit until one succeeds.                         *)
(***************************************************************************)
\* Block arguments: 1 the memref, 2 an index, 3 a scalar.
ArgIds == {1, 2, 3}

ArgDescr(v) ==
  CASE v = 1 -> MemRefArg
    [] v = 2 -> IndexArg(2)
    [] v = 3 -> ValueDescr(3, ScalarType("f16"), "none", <<>>)

\* The leading dimension 16.
Stride16 == <<16, 0, 0, 0>>

\* The elementwise kinds of the blocks Spec converts.
BlockElementwiseOps == {"ADDF", "MULF", "NEGATEF"}

\* The matrix values an operation after prefix can use.
MatrixValues(prefix) ==
  {prefix[i].id : i \in {j \in DOMAIN prefix :
                           prefix[j].kind # "gpu.subgroup_mma_store_matrix"}}

\* The operations that can stand at position n, on operands among vals.
OpsAt(n, vals) ==
  LET id == 3 + n
  IN {Op(id, "gpu.subgroup_mma_load_matrix", "-", <<1, 2>>, F16Matrix, Stride16, FALSE, <<>>),
      Op(id, "gpu.subgroup_mma_constant_matrix", "-", <<3>>, F16Matrix, <<>>, FALSE, <<>>)}
     \cup {Op(id, "gpu.subgroup_mma_store_matrix", "-", <<v, 1, 2>>, ScalarType("none"),
              Stride16, FALSE, <<>>) : v \in vals}
     \cup {Op(id, "gpu.subgroup_mma_compute", "-", <<a, b, c>>, F16Matrix, <<>>, FALSE, <<>>)
             : a \in vals, b \in vals, c \in vals}
     \cup {Op(id, "gpu.subgroup_mma_elementwise", sub,
              IF sub = "NEGATEF" THEN <<a>> ELSE <<a, b>>, F16Matrix, <<>>, FALSE, <<>>)
             : sub \in BlockElementwiseOps, a \in vals, b \in vals}

\* Whether op uses only matrix values defined in prefix.
WellFormedAfter(prefix, op) ==
  \A i \in DOMAIN op.operands :
    op.operands[i] \in ArgIds \/ op.operands[i] \in MatrixValues(prefix)

\* The well-formed blocks of n operations.
RECURSIVE Blocks(_)
Blocks(n) ==
  IF n = 0 THEN {<<>>}
  ELSE {Append(po[1], po[2]) :
          po \in {qo \in Blocks(n - 1) \X OpsAt(n, 4..(2 + n)) :
                    WellFormedAfter(qo[1], qo[2])}}

\* The rule harness does not take part in Spec.
HarnessIdle ==
  /\ rop = NoOp /\ rorig = <<>> /\ radaptor = <<>> /\ rconv = TRUE
  /\ rres = [p \in Patterns |-> Untried]

Init ==
  /\ \E n \in 1..MaxOps : graph \in Blocks(n)
  /\ bufOk \in BOOLEAN
  /\ out = <<>>
  /\ mapping = {}
  /\ erased = {}
  /\ cursor = 1
  /\ tried = {}
  /\ log = <<>>
  /\ run = 1
  /\ nextId = 20
  /\ pc = "legalize"
  /\ HarnessIdle

\* The value that replaces v, or v itself.
Lookup(v) ==
  IF \E m \in mapping : m[1] = v
  THEN (CHOOSE m \in mapping : m[1] = v)[2]
  ELSE v

\* The descriptor of value v, defined in block b or a block argument.
DescrIn(b, v) ==
  IF v \in ArgIds THEN ArgDescr(v)
  ELSE IF \E i \in DOMAIN b : b[i].id = v
  THEN LET o == b[CHOOSE i \in DOMAIN b : b[i].id = v]
       IN ValueDescr(v, o.type, o.kind, o.operands)
  ELSE ValueDescr(v, ScalarType("none"), "none", <<>>)

\* The operation being legalized.
Current == graph[cursor]

\* op.getOperands(): the operands of the original operation.
OrigOperandsOf(op) == [i \in DOMAIN op.operands |-> DescrIn(graph, op.operands[i])]

\* adaptor.getOperands(): the replacements of the operands, where they have one.
AdaptorOperandsOf(op) ==
  [i \in DOMAIN op.operands |->
     IF Lookup(op.operands[i]) = op.operands[i]
     THEN DescrIn(graph, op.operands[i])
     ELSE DescrIn(out, Lookup(op.operands[i]))]

\* op with the uses of replaced values redirected to their replacements.
Redirected(op) == [op EXCEPT !.operands = [i \in DOMAIN @ |-> Lookup(@[i])]]

\* Pattern p is the next to try on the current operation: rooted at its kind,
\* not tried yet, and of the greatest benefit among those.
IsNextPattern(p) ==
  /\ pc = "legalize"
  /\ cursor <= Len(graph)
  /\ Matches(p, Current.kind)
  /\ p \notin tried
  /\ \A q \in Patterns :
       (Matches(q, Current.kind) /\ q \notin tried) => Benefit(q) <= Benefit(p)

\* The effect of outcome o of pattern p on the current operation: a success is
\* committed, a failure only recorded, an abort ends the conversion.
Commit(p, o) ==
  /\ log' = Append(log, [op |-> Current.id, pattern |-> p, status |-> o.status,
                         created |-> [i \in DOMAIN o.created |-> o.created[i].id]])
  /\ out' = IF o.status = "failure" THEN out
            ELSE IF o.erased \/ o.status = "abort" THEN out \o o.created
            ELSE out \o o.created \o <<Redirected(Current)>>
  /\ mapping' = IF o.status = "success" /\ o.repl # NullValue
                THEN mapping \cup {<<Current.id, o.repl>>}
                ELSE mapping
  /\ erased' = IF o.status = "success" /\ o.erased
               THEN erased \cup {Current.id}
               ELSE erased
  /\ cursor' = IF o.status = "success" THEN cursor + 1 ELSE cursor
  /\ tried' = IF o.status = "failure" THEN tried \cup {p} ELSE {}
  /\ nextId' = IF o.status = "failure" THEN nextId ELSE nextId + Len(o.created)
  /\ pc' = IF o.status = "abort" THEN "aborted" ELSE pc
  /\ UNCHANGED <<graph, bufOk, run>>
  /\ UNCHANGED rvars

ApplyLoad ==
  /\ IsNextPattern("Load")
  /\ \E o \in WmmaLoadOpToSPIRVLowering(Current, OrigOperandsOf(Current),
                                        AdaptorOperandsOf(Current), bufOk, nextId) :
       Commit("Load", o)

ApplyStore ==
  /\ IsNextPattern("Store")
  /\ \E o \in WmmaStoreOpToSPIRVLowering(Current, OrigOperandsOf(Current),
                                         AdaptorOperandsOf(Current), bufOk, nextId) :
       Commit("Store", o)

ApplyMma ==
  /\ IsNextPattern("Mma")
  /\ \E o \in WmmaMmaOpToSPIRVLowering(Current, OrigOperandsOf(Current),
                                       AdaptorOperandsOf(Current), bufOk, nextId) :
       Commit("Mma", o)

ApplyConstant ==
  /\ IsNextPattern("Constant")
  /\ \E o \in WmmaConstantOpToSPIRVLowering(Current, OrigOperandsOf(Current),
                                            AdaptorOperandsOf(Current), bufOk, nextId) :
       Commit("Constant", o)

ApplyDefault ==
  /\ IsNextPattern("Default")
  /\ \E o \in WmmaElementwiseOpToSPIRVDefaultLowering(Current, OrigOperandsOf(Current),
                                                      AdaptorOperandsOf(Current), bufOk, nextId) :
       Commit("Default", o)

ApplyScalarMul ==
  /\ IsNextPattern("ScalarMul")
  /\ \E o \in WmmaElementwiseOpToSPIRVScalarMulLowering(Current, OrigOperandsOf(Current),
                                                        AdaptorOperandsOf(Current), bufOk, nextId) :
       Commit("ScalarMul", o)

\* No pattern is left to try on the current operation: it stays in the block,
\* its uses of replaced values redirected.
LeaveInPlace ==
  /\ pc = "legalize"
  /\ cursor <= Len(graph)
  /\ \A p \in Patterns : Matches(p, Current.kind) => p \in tried
  /\ out' = Append(out, Redirected(Current))
  /\ cursor' = cursor + 1
  /\ tried' = {}
  /\ UNCHANGED <<graph, bufOk, mapping, erased, log, run, nextId, pc>>
  /\ UNCHANGED rvars

\* Every operation of the block was visited.
Finish ==
  /\ pc = "legalize"
  /\ cursor > Len(graph)
  /\ pc' = "done"
  /\ UNCHANGED <<graph, bufOk, out, mapping, erased, cursor, tried, log, run, nextId>>
  /\ UNCHANGED rvars

\* The conversion is run again on its own output.
Rerun ==
  /\ pc = "done"
  /\ run = 1
  /\ graph' = out
  /\ out' = <<>>
  /\ mapping' = {}
  /\ erased' = {}
  /\ cursor' = 1
  /\ tried' = {}
  /\ log' = <<>>
  /\ run' = 2
  /\ pc' = "legalize"
  /\ UNCHANGED <<bufOk, nextId>>
  /\ UNCHANGED rvars

Next ==
  \/ ApplyLoad
  \/ ApplyStore
  \/ ApplyMma
  \/ ApplyConstant
  \/ ApplyDefault
  \/ ApplyScalarMul
  \/ LeaveInPlace
  \/ Finish
  \/ Rerun

Spec == Init /\ [][Next]_vars

(***************************************************************************)
(* Properties of the conversion of a block (Spec).                         *)
(***************************************************************************)
\* The operations of the block that were visited.
Visited == {graph[i] : i \in {j \in DOMAIN graph : j < cursor}}

\* The block as it stands: the converted part, then the part not visited yet
\* with its uses of replaced values redirected.
View == out \o [i \in 1..(Len(graph) + 1 - cursor) |-> Redirected(graph[cursor - 1 + i])]

\* The applications of pattern p to the operation id that ended with status.
Applications(id, p, status) ==
  {i \in DOMAIN log : log[i].op = id /\ log[i].pattern = p /\ log[i].status = status}

IsMulF(o) == o.kind = "gpu.subgroup_mma_elementwise" /\ o.sub = "MULF"

\* No original operand of o is the result of a constant-matrix operation.
NoConstantOperand(o) ==
  \A i \in DOMAIN o.operands : ~FromConstantMatrix(DescrIn(graph, o.operands[i]))

\* C2: the scalar-multiply pattern has benefit 2 and the default pattern 1;
\* on every MULF the scalar-multiply pattern is applied first, and the default
\* pattern only after it declined; a MULF with no operand from a
\* constant-matrix operation is declined by both and stays in the block.
C2_ScalarMulTriedFirst ==
  /\ Benefit("ScalarMul") = 2 /\ Benefit("Default") = 1
  /\ \A o \in Visited :
       IsMulF(o) =>
         /\ \E i \in DOMAIN log : log[i].op = o.id /\ log[i].pattern = "ScalarMul"
         /\ \A j \in DOMAIN log :
              (log[j].op = o.id /\ log[j].pattern = "Default")
                => \E i \in 1..(j - 1) :
                     /\ log[i].op = o.id
                     /\ log[i].pattern = "ScalarMul"
                     /\ log[i].status = "failure"
         /\ NoConstantOperand(o) =>
              /\ Applications(o.id, "ScalarMul", "failure") # {}
              /\ Applications(o.id, "Default", "failure") # {}
              /\ o.id \notin erased
              /\ \E k \in DOMAIN out : out[k] = Redirected(o)

\* A MULF of two loaded cooperative matrices was declined by both patterns.
C2_Witness ==
  /\ run = 1 /\ pc = "done"
  /\ \E o \in Visited :
       /\ IsMulF(o) /\ NoConstantOperand(o)
       /\ \A i \in DOMAIN o.operands : isCoop(AdaptorOperandsOf(o)[i].type)
       /\ \E k \in DOMAIN out : out[k] = Redirected(o)

HasResult(o) == o.kind # "gpu.subgroup_mma_store_matrix"

OutIds == {out[k].id : k \in DOMAIN out}

\* Operation o of the block was replaced by target operations, and no use of
\* its result is left.
C6_Replaced(o) ==
  /\ o.id \in erased
  /\ \A k \in DOMAIN out : out[k].id # o.id
  /\ \E i \in DOMAIN log :
       /\ log[i].op = o.id /\ log[i].status = "success"
       /\ log[i].created # <<>>
       /\ \A c \in DOMAIN log[i].created :
            \E k \in DOMAIN out :
              out[k].id = log[i].created[c] /\ out[k].kind \notin GenericKinds
  /\ HasResult(o) => (Lookup(o.id) # o.id /\ Lookup(o.id) \in OutIds)
  /\ \A k \in DOMAIN View : \A a \in DOMAIN View[k].operands :
       View[k].operands[a] # o.id

\* Operation o of the block is still there as it was, every pattern rooted at
\* its kind having declined.
C6_LeftInPlace(o) ==
  /\ o.id \notin erased
  /\ \E k \in DOMAIN out : out[k] = Redirected(o)
  /\ \A p \in Patterns :
       Matches(p, o.kind) => Applications(o.id, p, "failure") # {}
  /\ \A i \in DOMAIN log : log[i].op = o.id => log[i].status = "failure"

\* C6: every generic operation that was visited is either replaced by target
\* operations, every use of its result redirected to the replacement, or
\* still in the block unchanged after every pattern for its kind declined; no
\* operation is removed without a replacement and no operation uses the
\* result of a removed one.
C6_ReplacedOrLeftInPlace ==
  /\ \A o \in Visited :
       o.kind \in GenericKinds => (C6_Replaced(o) \/ C6_LeftInPlace(o))
  /\ \A i \in DOMAIN graph : i >= cursor => graph[i].id \notin erased
  /\ \A id \in erased :
       \E i \in DOMAIN log :
         log[i].op = id /\ log[i].status = "success" /\ log[i].created # <<>>
  /\ \A k \in DOMAIN View : \A a \in DOMAIN View[k].operands :
       View[k].operands[a] \notin erased

\* The first run is over; a replaced operation had its result used by an
\* operation that was left in place.
C6_Witness ==
  /\ run = 1 /\ pc = "done"
  /\ \E o \in Visited : \E u \in Visited :
       /\ C6_Replaced(o) /\ HasResult(o)
       /\ u.kind \in GenericKinds /\ C6_LeftInPlace(u)
       /\ \E a \in DOMAIN u.operands : u.operands[a] = o.id

OnlyTargetOps(b) == \A i \in DOMAIN b : b[i].kind \notin GenericKinds

\* C8: no pattern is applied to an operation of a target kind; converting a
\* block of target operations only applies no pattern at all; and the second
\* conversion, of the output of the first, ends with the block unchanged.
C8_SecondRunChangesNothing ==
  /\ \A j \in DOMAIN log : \A i \in DOMAIN graph :
       graph[i].id = log[j].op => graph[i].kind \in GenericKinds
  /\ OnlyTargetOps(graph) => (log = <<>> /\ erased = {} /\ mapping = {})
  /\ (run = 2 /\ pc = "done") => out = graph

\* The second run is over on a block of target operations that holds a
\* multiply-accumulate and a store.
C8_Witness ==
  /\ run = 2 /\ pc = "done" /\ OnlyTargetOps(graph)
  /\ \E i \in DOMAIN graph : graph[i].kind = "spirv.NV.CooperativeMatrixMulAdd"
  /\ \E i \in DOMAIN graph : graph[i].kind = "spirv.NV.CooperativeMatrixStore"

(***************************************************************************)
(* Properties of single pattern applications (RuleSpec).                   *)
(***************************************************************************)
Reverse(s) == [i \in DOMAIN s |-> s[Len(s) + 1 - i]]

IsElementwise == rop.kind = "gpu.subgroup_mma_elementwise"

AllConvertedCoop == \A i \in DOMAIN radaptor : isCoop(radaptor[i].type)

\* The root is a two-operand MULF on cooperative matrices whose original
\* operand x comes from a constant-matrix operation converted to a
\* CompositeConstruct of one constituent, and whose operand y does not.
C1_Case(x, y) ==
  /\ IsElementwise /\ rop.sub = "MULF" /\ Len(radaptor) = 2 /\ AllConvertedCoop
  /\ FromConstantMatrix(rorig[x]) /\ ~FromConstantMatrix(rorig[y])
  /\ radaptor[x].def = "spirv.CompositeConstruct" /\ Len(radaptor[x].args) = 1

C1_Expected(x, y) ==
  Outcome("success",
          <<TargetOp(100, "spirv.MatrixTimesScalar",
                     <<radaptor[y].id, radaptor[x].args[1]>>,
                     CooperativeMatrixNVType(rop.type.elem, "Subgroup",
                                             rop.type.rows, rop.type.cols), <<>>)>>,
          TRUE, 100)

\* C1: on a two-operand MULF of cooperative matrices with exactly one original
\* operand X from a constant-matrix operation (converted to a one-constituent
\* CompositeConstruct), the scalar-multiply pattern succeeds with exactly one
\* MatrixTimesScalar on (converted Y, the constituent of converted X), and the
\* pattern gives the same on the operands exchanged.
C1_ScalarMulFusion ==
  \A xy \in {<<1, 2>>, <<2, 1>>} :
    (C1_Case(xy[1], xy[2]) /\ rres["ScalarMul"] # Untried)
      => /\ rres["ScalarMul"] = C1_Expected(xy[1], xy[2])
         /\ WmmaElementwiseOpToSPIRVScalarMulLowering(
              rop, Reverse(rorig), Reverse(radaptor), rconv, 100)
            = {rres["ScalarMul"]}

\* The constant-matrix operand is the right one and the pattern was applied.
C1_Witness == C1_Case(2, 1) /\ rres["ScalarMul"].status = "success"

C3_Supported ==
  {"ADDF", "ADDI", "SUBF", "SUBI", "DIVF", "DIVS", "DIVU", "NEGATEF", "NEGATES", "EXTF"}

C3_Target ==
  [ADDF |-> "spirv.FAdd", ADDI |-> "spirv.IAdd", SUBF |-> "spirv.FSub",
   SUBI |-> "spirv.ISub", DIVF |-> "spirv.FDiv", DIVS |-> "spirv.SDiv",
   DIVU |-> "spirv.UDiv", NEGATEF |-> "spirv.FNegate", NEGATES |-> "spirv.SNegate",
   EXTF |-> "spirv.FConvert"]

\* C3: the default elementwise pattern declines, creating nothing and leaving
\* the root in place, when a converted operand is not a cooperative matrix or
\* the kind is not one of the ten supported ones; otherwise it replaces the
\* root by exactly one operation, the one the table gives, on the converted
\* operands in order and with the translated result type.
C3_DefaultElementwise ==
  (IsElementwise /\ rres["Default"] # Untried)
    => IF ~AllConvertedCoop \/ rop.sub \notin C3_Supported
       THEN rres["Default"] = Outcome("failure", <<>>, FALSE, NullValue)
       ELSE rres["Default"] =
              Outcome("success",
                      <<TargetOp(100, C3_Target[rop.sub],
                                 [i \in DOMAIN radaptor |-> radaptor[i].id],
                                 CooperativeMatrixNVType(rop.type.elem, "Subgroup",
                                                         rop.type.rows, rop.type.cols),
                                 <<>>)>>,
                      TRUE, 100)

\* A two-operand SUBF was replaced by the default pattern.
C3_Witness ==
  /\ IsElementwise /\ rop.sub = "SUBF" /\ Len(radaptor) = 2
  /\ rres["Default"].status = "success"

\* The created constants of type t.
ConstantsOf(o, t) ==
  {i \in DOMAIN o.created :
     o.created[i].kind = "spirv.Constant" /\ o.created[i].type = ScalarType(t)}

\* C4: the stride constant the load and the store pattern create has the
\* value of the leading dimension S, for every S, and the column-major
\* constant is true exactly when the transpose flag is set (stated where
\* the address was computed).
C4_StrideAndColumnMajor ==
  \A p \in {"Load", "Store"} :
    (rconv /\ rres[p].status = "success")
      => /\ \A i \in ConstantsOf(rres[p], "i32") :
              \/ SExt64(rres[p].created[i].attr) = rop.stride
              \/ ZExt64(rres[p].created[i].attr) = rop.stride
         /\ \A i \in ConstantsOf(rres[p], "i1") :
              rres[p].created[i].attr = <<1>> <=> rop.transpose
         /\ Cardinality(ConstantsOf(rres[p], "i32")) = 1
         /\ Cardinality(ConstantsOf(rres[p], "i1")) = 1

\* C5: the multiply-accumulate pattern always succeeds with exactly one
\* CooperativeMatrixMulAdd on the converted A, B, C in this order, whose
\* result type is the type of the converted C.
C5_MmaOperandsAndType ==
  (rop.kind = "gpu.subgroup_mma_compute" /\ rres["Mma"] # Untried)
    => rres["Mma"] =
         Outcome("success",
                 <<TargetOp(100, "spirv.NV.CooperativeMatrixMulAdd",
                            <<radaptor[1].id, radaptor[2].id, radaptor[3].id>>,
                            radaptor[3].type, <<>>)>>,
                 TRUE, 100)

\* The pattern was applied where A, B and C have three different types.
C5_Witness ==
  /\ rop.kind = "gpu.subgroup_mma_compute" /\ rres["Mma"].status = "success"
  /\ radaptor[1].type # radaptor[3].type
  /\ radaptor[2].type # radaptor[3].type
  /\ radaptor[1].type # radaptor[2].type

\* C7: when getElementPtr gives no address, the load pattern and the store
\* pattern fail, create nothing and leave the root in place.
C7_AddressFailurePropagates ==
  \A p \in {"Load", "Store"} :
    (~rconv /\ rres[p] # Untried)
      => rres[p] = Outcome("failure", <<>>, FALSE, NullValue)

\* The root is a two-operand MULF on cooperative matrices with an original
\* operand from a constant-matrix operation.
C9_Case ==
  /\ IsElementwise /\ rop.sub = "MULF" /\ Len(radaptor) = 2 /\ AllConvertedCoop
  /\ \E i \in 1..2 : FromConstantMatrix(rorig[i])

\* The converted operand the pattern takes as the splat.
C9_Splat == IF FromConstantMatrix(rorig[1]) THEN radaptor[1] ELSE radaptor[2]

C10_Dispatch(first, second) ==
  IF rres[first].status # "failure" THEN rres[first] ELSE rres[second]

\* C10: on every elementwise operation at most one of the default pattern and
\* the scalar-multiply pattern succeeds, the latter only on MULF and the
\* former only on other kinds, so both trial orders give the same result.
C10_ElementwisePatternsExclusive ==
  IsElementwise
    => /\ ~(rres["Default"].status = "success" /\ rres["ScalarMul"].status = "success")
       /\ rres["ScalarMul"].status = "success" => rop.sub = "MULF"
       /\ rres["Default"].status = "success" => rop.sub # "MULF"
       /\ (rres["Default"] # Untried /\ rres["ScalarMul"] # Untried)
            => C10_Dispatch("ScalarMul", "Default") = C10_Dispatch("Default", "ScalarMul")

\* Both patterns were applied to a MULF the scalar-multiply pattern replaced.
C10_Witness ==
  /\ IsElementwise
  /\ rres["Default"].status = "failure"
  /\ rres["ScalarMul"].status = "success"

====
